---- MODULE Spec2Model ----
(***************************************************************************)
(* A model of the NEXUS crypto dashboard: the State object of js/App.js,   *)
(* its localStorage persistence, the filter -> sort -> render pipeline,    *)
(* the event handlers of bindEvents, the asynchronous loadData, and the    *)
(* DOM mutations of js/UI.js.                                              *)
(*                                                                         *)
(* Texts that the code inspects character by character (coin names,        *)
(* symbols, the search query) are sequences of one-character strings.      *)
(* Coin ids and enum-like strings are compared only for equality and are   *)
(* atomic strings.                                                         *)
(***************************************************************************)
EXTENDS Integers, Sequences, FiniteSets, TLC

VARIABLES
    State,          \* the State object of App.js
    localStorage,   \* the browser's localStorage: key -> entry
    dom,            \* the DOM nodes UI.js and App.js write
    fetches,        \* fetchCoins() promises that are pending
    pc,             \* "constructed" (State built) or "running" (entry point ran)
    last,           \* the most recent handler run: its name, calls, outcome
    rejectedWrites, \* localStorage.setItem calls the browser has refused
    events,         \* clicks, inputs, timer ticks and reloads so far
    probe           \* inputs and result of the last direct application of a helper

vars == <<State, localStorage, dom, fetches, pc, last, rejectedWrites, events, probe>>

(***************************************************************************)
(* Bounds of the model.                                                    *)
(***************************************************************************)
\* fetchCoins() promises that may be pending at once before the model stops
\* starting new ones (the code under test never exceeds one).
MaxPending == 2
\* longest coin list handed to the pipeline when it is applied directly
MaxCoins == 3
\* localStorage writes the browser refuses in one behaviour
MaxRejected == 1
\* clicks, inputs, timer ticks and page reloads in one behaviour
MaxEvents == 2

(***************************************************************************)
(* JavaScript values as they come out of JSON.parse.  Every value is a     *)
(* record of the same shape so that values of different JS types can be    *)
(* compared: t is the JS type, s the text of a string or number, a the     *)
(* elements of an array.                                                   *)
(***************************************************************************)
Str(s) == [t |-> "string", s |-> s, a |-> <<>>]

Num(s) == [t |-> "number", s |-> s, a |-> <<>>]

Arr(a) == [t |-> "array", s |-> "", a |-> a]

Null == [t |-> "null", s |-> "", a |-> <<>>]

\* the array of strings ids[1], ids[2], ...
StrArr(ids) == Arr([i \in 1..Len(ids) |-> Str(ids[i])])

(***************************************************************************)
(* JSON text is a sequence of lexemes: the punctuation [ ] , the quote     *)
(* mark, the literal null, number literals, and the body of a string       *)
(* literal (kept whole).                                                   *)
(***************************************************************************)
Quote == "\""

Punctuation == {"[", "]", ",", Quote}

NumberLexemes == {"0", "42"}

\* JSON.stringify(v)
RECURSIVE JSONstringify(_)
JSONstringify(v) ==
    CASE v.t = "string" -> IF v.s = "" THEN <<Quote, Quote>> ELSE <<Quote, v.s, Quote>>
      [] v.t = "number" -> <<v.s>>
      [] v.t = "null"   -> <<"null">>
      [] v.t = "array"  ->
            LET RECURSIVE Elems(_)
                Elems(i) ==
                    IF i > Len(v.a) THEN <<>>
                    ELSE (IF i > 1 THEN <<",">> ELSE <<>>)
                         \o JSONstringify(v.a[i]) \o Elems(i + 1)
            IN  <<"[">> \o Elems(1) \o <<"]">>

\* The result of parsing one JSON value that starts at lexeme i of raw:
\* ok (no SyntaxError so far), the value, and the index after it.
ParseFail == [ok |-> FALSE, val |-> Null, next |-> 0]

RECURSIVE ParseValue(_, _)
RECURSIVE ParseElements(_, _, _)
ParseValue(raw, i) ==
    IF i > Len(raw) THEN ParseFail
    ELSE CASE raw[i] = "null" -> [ok |-> TRUE, val |-> Null, next |-> i + 1]
           [] raw[i] \in NumberLexemes ->
                [ok |-> TRUE, val |-> Num(raw[i]), next |-> i + 1]
           [] raw[i] = Quote ->
                IF i + 1 <= Len(raw) /\ raw[i + 1] = Quote
                THEN [ok |-> TRUE, val |-> Str(""), next |-> i + 2]
                ELSE
                IF i + 2 <= Len(raw) /\ raw[i + 1] \notin Punctuation
                                     /\ raw[i + 2] = Quote
                THEN [ok |-> TRUE, val |-> Str(raw[i + 1]), next |-> i + 3]
                ELSE ParseFail
           [] raw[i] = "[" ->
                IF i + 1 <= Len(raw) /\ raw[i + 1] = "]"
                THEN [ok |-> TRUE, val |-> Arr(<<>>), next |-> i + 2]
                ELSE ParseElements(raw, i + 1, <<>>)
           [] OTHER -> ParseFail

\* the elements of an array, the first of them starting at lexeme i
ParseElements(raw, i, acc) ==
    LET e == ParseValue(raw, i)
    IN  IF ~e.ok \/ e.next > Len(raw) THEN ParseFail
        ELSE CASE raw[e.next] = "]" ->
                    [ok |-> TRUE, val |-> Arr(Append(acc, e.val)), next |-> e.next + 1]
               [] raw[e.next] = "," ->
                    ParseElements(raw, e.next + 1, Append(acc, e.val))
               [] OTHER -> ParseFail

\* JSON.parse(raw): ok is FALSE when it throws a SyntaxError
JSONparse(raw) ==
    LET r == ParseValue(raw, 1)
    IN  IF r.ok /\ r.next = Len(raw) + 1
        THEN [ok |-> TRUE, val |-> r.val]
        ELSE [ok |-> FALSE, val |-> Null]

(***************************************************************************)
(* localStorage.  An entry is absent (getItem returns null) or holds text. *)
(***************************************************************************)
STORAGE_KEYS ==
    [FAVORITES  |-> "nexus_favorites",
     THEME      |-> "nexus_theme",
     SORT_BY    |-> "nexus_sort_by",
     SORT_ORDER |-> "nexus_sort_order"]

Keys == {STORAGE_KEYS.FAVORITES, STORAGE_KEYS.THEME,
         STORAGE_KEYS.SORT_BY, STORAGE_KEYS.SORT_ORDER}

Absent == [present |-> FALSE, raw |-> <<>>]

Entry(raw) == [present |-> TRUE, raw |-> raw]

\* loadFromStorage(key, defaultValue) against the storage `store`; `denied`
\* is the browser refusing access to localStorage (the lookup throws).
\* threw: an exception left the function.
loadFromStorageNoCatch(store, key, defaultValue, denied) ==
    LET p == JSONparse(store[key].raw)
    IN  IF denied THEN [threw |-> TRUE, value |-> defaultValue]
        ELSE IF ~store[key].present THEN [threw |-> FALSE, value |-> defaultValue]
        ELSE IF p.ok THEN [threw |-> FALSE, value |-> p.val]
        ELSE [threw |-> TRUE, value |-> defaultValue]

loadFromStorageNoParse(store, key, defaultValue, denied) ==
    IF denied \/ ~store[key].present THEN [threw |-> FALSE, value |-> defaultValue]
    ELSE [threw |-> FALSE, value |-> Str(store[key].raw[1])]

loadFromStorage(store, key, defaultValue, denied) ==
    LET p == JSONparse(store[key].raw)
    IN  IF denied THEN [threw |-> FALSE, value |-> defaultValue]
        ELSE IF ~store[key].present THEN [threw |-> FALSE, value |-> defaultValue]
        ELSE IF p.ok THEN [threw |-> FALSE, value |-> p.val]
        ELSE [threw |-> FALSE, value |-> defaultValue]

\* saveToStorage(key, value): `accepted` is setItem not throwing (no quota
\* error, storage not disabled).  threw: an exception left the function.
saveToStorageNoCatch(store, key, value, accepted) ==
    IF accepted
    THEN [threw |-> FALSE, store |-> [store EXCEPT ![key] = Entry(JSONstringify(value))]]
    ELSE [threw |-> TRUE, store |-> store]

saveToStorage(store, key, value, accepted) ==
    IF accepted
    THEN [threw |-> FALSE, store |-> [store EXCEPT ![key] = Entry(JSONstringify(value))]]
    ELSE [threw |-> FALSE, store |-> store]

(***************************************************************************)
(* Texts: String.prototype.toLowerCase, trim and includes.                 *)
(***************************************************************************)
LowerChars == <<"a", "b", "e", "f", "l", "t", "z">>

UpperChars == <<"A", "B", "E", "F", "L", "T", "Z">>

Letters == 1..Len(LowerChars)

IsUpper(c) == \E i \in Letters : UpperChars[i] = c

LowerOf(c) ==
    IF IsUpper(c) THEN LowerChars[CHOOSE i \in Letters : UpperChars[i] = c] ELSE c

toLowerCase(text) == [i \in 1..Len(text) |-> LowerOf(text[i])]

RECURSIVE trimStart(_)
trimStart(text) ==
    IF text # <<>> /\ Head(text) = " " THEN trimStart(Tail(text)) ELSE text

RECURSIVE trimEnd(_)
trimEnd(text) ==
    IF text # <<>> /\ text[Len(text)] = " "
    THEN trimEnd(SubSeq(text, 1, Len(text) - 1)) ELSE text

trim(text) == trimEnd(trimStart(text))

\* text.includes(query)
includes(text, query) ==
    \E i \in 0..(Len(text) - Len(query)) : SubSeq(text, i + 1, i + Len(query)) = query

\* Position of a letter in the alphabet, ignoring case.
Rank(c) == CHOOSE i \in Letters : LowerChars[i] = LowerOf(c)

\* Lexicographic comparison of two sequences of numbers: -1, 0 or 1.
RECURSIVE LexCompare(_, _)
LexCompare(x, y) ==
    IF x = <<>> /\ y = <<>> THEN 0
    ELSE IF x = <<>> THEN -1
    ELSE IF y = <<>> THEN 1
    ELSE IF Head(x) < Head(y) THEN -1
    ELSE IF Head(x) > Head(y) THEN 1
    ELSE LexCompare(Tail(x), Tail(y))

\* a.localeCompare(b) for texts made of letters: the letters decide first,
\* ignoring case; between texts with the same letters, lower case sorts first.
localeCompare(x, y) ==
    LET letters(t) == [i \in 1..Len(t) |-> Rank(t[i])]
        cases(t)   == [i \in 1..Len(t) |-> IF IsUpper(t[i]) THEN 1 ELSE 0]
        primary    == LexCompare(letters(x), letters(y))
    IN  IF primary # 0 THEN primary ELSE LexCompare(cases(x), cases(y))

(***************************************************************************)
(* Coin records (the CoinData fields the filter and the sorter read).      *)
(***************************************************************************)
Coin(id, symbol, name, cap, price, change, volume) ==
    [id |-> id, symbol |-> symbol, name |-> name, market_cap |-> cap,
     current_price |-> price, price_change_percentage_24h |-> change,
     total_volume |-> volume]

Alfa == Coin("a", <<"A", "L", "F">>, <<"A", "l", "f", "a">>, 100, 7, -2, 30)

Beta == Coin("b", <<"B", "E", "T">>, <<"B", "e", "t", "a">>, 50, 9, 4, 30)

\* a later quote of coin a: same id, a market cap that ties with Zeta's
Alfa2 == Coin("a", <<"A", "L", "F">>, <<"A", "l", "f", "a">>, 60, 7, 1, 10)

\* a coin whose symbol holds a text ("zz") that its name does not
Zeta == Coin("z", <<"Z", "Z", "T">>, <<"z", "e", "t", "a">>, 60, 2, 0, 10)

(***************************************************************************)
(* FUNCTIONAL DATA PIPELINE: filter -> sort                                *)
(***************************************************************************)
\* The key under which comparators[field] looks a JS value up.
PropertyKey(v) ==
    CASE v.t = "string" -> v.s
      [] v.t = "number" -> v.s
      [] v.t = "null"   -> "null"
      [] v.t = "array"  ->
           IF Len(v.a) = 0 THEN ""
           ELSE IF Len(v.a) = 1 /\ v.a[1].t \in {"string", "number"} THEN v.a[1].s
           ELSE IF Len(v.a) = 1 /\ v.a[1].t = "null" THEN ""
           ELSE ","

Sign(n) == IF n < 0 THEN -1 ELSE IF n > 0 THEN 1 ELSE 0

\* Properties every object literal inherits from Object.prototype that are
\* callable with two arguments and this = undefined without throwing; as a
\* sort comparator each returns a non-number, which Array.prototype.sort
\* reads as "equal".
InheritedComparators == {"toString", "constructor"}

\* Inherited functions that throw a TypeError when called with
\* this = undefined, as Array.prototype.sort calls its comparator
InheritedThrowing ==
    {"valueOf", "toLocaleString", "hasOwnProperty", "isPrototypeOf",
     "propertyIsEnumerable"}

\* Inherited properties that are not nullish and not functions:
\* Array.prototype.sort throws a TypeError on such a comparator at once
NotCallable == {"__proto__"}

\* getSorter(field, order)(a, b): negative, zero or positive
getSorterIgnoringOrder(field, order, a, b) ==
    LET key == PropertyKey(field)
    IN  CASE key = "market_cap" -> a.market_cap - b.market_cap
          [] key = "price"  -> a.current_price - b.current_price
          [] key = "change" -> a.price_change_percentage_24h
                                  - b.price_change_percentage_24h
          [] key = "name"   -> localeCompare(a.name, b.name)
          [] key = "volume" -> a.total_volume - b.total_volume
          [] key \in InheritedComparators -> 0
          [] OTHER -> a.market_cap - b.market_cap

getSorter(field, order, a, b) ==
    LET direction == IF order = Str("asc") THEN 1 ELSE -1
        key == PropertyKey(field)
    IN  CASE key = "market_cap" -> direction * (a.market_cap - b.market_cap)
          [] key = "price"  -> direction * (a.current_price - b.current_price)
          [] key = "change" -> direction * (a.price_change_percentage_24h
                                              - b.price_change_percentage_24h)
          [] key = "name"   -> direction * localeCompare(a.name, b.name)
          [] key = "volume" -> direction * (a.total_volume - b.total_volume)
          [] key \in InheritedComparators -> 0
          [] OTHER -> direction * (a.market_cap - b.market_cap)

\* [...coins].sort(getSorter(field, order)): Array.prototype.sort is stable,
\* so the result is the one insertion sort gives.
RECURSIVE InsertSortedUnstable(_, _, _, _)
InsertSortedUnstable(sorted, x, field, order) ==
    IF sorted = <<>> THEN <<x>>
    ELSE LET y == sorted[Len(sorted)]
         IN  IF getSorter(field, order, y, x) < 0 THEN Append(sorted, x)
             ELSE Append(InsertSortedUnstable(SubSeq(sorted, 1, Len(sorted) - 1),
                                              x, field, order), y)

RECURSIVE InsertSorted(_, _, _, _)
InsertSorted(sorted, x, field, order) ==
    IF sorted = <<>> THEN <<x>>
    ELSE LET y == sorted[Len(sorted)]
         IN  IF getSorter(field, order, y, x) <= 0 THEN Append(sorted, x)
             ELSE Append(InsertSorted(SubSeq(sorted, 1, Len(sorted) - 1),
                                      x, field, order), y)

RECURSIVE sort(_, _, _)
sort(coins, field, order) ==
    IF coins = <<>> THEN <<>>
    ELSE InsertSorted(sort(SubSeq(coins, 1, Len(coins) - 1), field, order),
                      coins[Len(coins)], field, order)

\* [...coins].sort(getSorter(field, order)) throws: the comparator is not a
\* function, or it is called (two elements at least) and throws
sortThrows(coins, field) ==
    \/ PropertyKey(field) \in NotCallable
    \/ PropertyKey(field) \in InheritedThrowing /\ Len(coins) >= 2

\* coins.filter(keep)
filter(coins, keep(_)) == SelectSeq(coins, keep)

\* favorites.includes(coinId): Array.prototype.includes for an array,
\* String.prototype.includes for a string.  The strings that get into
\* State.favorites here and the coin ids are one character long, so the id
\* is a substring of the string exactly when it is the string.
favoritesIncludes(favorites, coinId) ==
    IF favorites.t = "string" THEN favorites.s = coinId
    ELSE \E i \in 1..Len(favorites.a) : favorites.a[i] = Str(coinId)

\* favorites.includes / favorites.length throw a TypeError on these
NoProperties(v) == v.t = "null"

\* favorites.length, for an array or a string of one character at most
length(v) == IF v.t = "string" THEN (IF v.s = "" THEN 0 ELSE 1) ELSE Len(v.a)

\* [...favorites]: the elements of an array, the characters of a string
spread(v) == IF v.t = "string" THEN (IF v.s = "" THEN <<>> ELSE <<Str(v.s)>>) ELSE v.a

\* the search filter of deriveVisibleCoins
searchFilterNameOnly(S) ==
    LET query == trim(toLowerCase(S.searchQuery))
        keep(coin) == \/ query = <<>>
                      \/ includes(toLowerCase(coin.name), query)
    IN  filter(S.allCoins, keep)

searchFilter(S) ==
    LET query == trim(toLowerCase(S.searchQuery))
        keep(coin) == \/ query = <<>>
                      \/ includes(toLowerCase(coin.name), query)
                      \/ includes(toLowerCase(coin.symbol), query)
    IN  filter(S.allCoins, keep)

\* deriveVisibleCoins(), reading state S.  threw: a TypeError left it.
deriveVisibleCoinsDuplicating(S) ==
    [threw |-> FALSE, value |-> sort(S.allCoins \o searchFilter(S), S.sortBy, S.sortOrder)]

deriveVisibleCoins(S) ==
    LET searched == searchFilter(S)
        isFav(coin) == favoritesIncludes(S.favorites, coin.id)
    IN  IF S.watchlistOnly /\ searched # <<>> /\ NoProperties(S.favorites)
        THEN [threw |-> TRUE, value |-> <<>>]
        ELSE LET watchlisted == IF S.watchlistOnly THEN filter(searched, isFav)
                                ELSE searched
             IN  IF sortThrows(watchlisted, S.sortBy)
                 THEN [threw |-> TRUE, value |-> <<>>]
                 ELSE [threw |-> FALSE,
                       value |-> sort(watchlisted, S.sortBy, S.sortOrder)]


(***************************************************************************)
(* UI.js: the DOM nodes and the functions that write them.  An environment *)
(* e is the DOM together with what the running handler has done so far:    *)
(* the calls it made, in order, and the texts it wrote into the nodes the  *)
(* program only ever writes (the toast, the error message, the counters).  *)
(* dom holds the nodes that decide what the page displays.                 *)
(***************************************************************************)
NoToast == [kind |-> "none", type |-> "none", n |-> 0, id |-> ""]

NoStats == [total |-> -1, showing |-> -1, favorites |-> -1]

Toast(kind, type, n, id) == [kind |-> kind, type |-> type, n |-> n, id |-> id]

EmptyGrid == [kind |-> "empty", cards |-> <<>>]

\* the page as index.html delivers it, before any script has run
InitialDom ==
    [coinGrid          |-> EmptyGrid,
     errorBannerHidden |-> TRUE,
     emptyStateHidden  |-> TRUE,
     emptyMsg          |-> "",
     dataTheme         |-> Str("dark"),
     spinning          |-> FALSE,
     sortOrderAsc      |-> FALSE,
     ariaPressed       |-> FALSE,
     clearSearchHidden |-> TRUE]

Called(e, name) == [e EXCEPT !.calls = Append(@, name)]

hideError(e) == [Called(e, "hideError") EXCEPT !.dom.errorBannerHidden = TRUE]

hideEmpty(e) == [Called(e, "hideEmpty") EXCEPT !.dom.emptyStateHidden = TRUE]

showEmpty(e, message) ==
    [Called(e, "showEmpty") EXCEPT !.dom.emptyMsg = message,
                                   !.dom.emptyStateHidden = FALSE]

renderSkeletons(e, count) ==
    [hideError(hideEmpty(Called(e, "renderSkeletons")))
        EXCEPT !.dom.coinGrid = [kind |-> "skeletons", cards |-> <<>>]]

\* buildCoinCard(coin, favoriteIds): the coin shown and whether it is starred
buildCoinCard(coin, favoriteIds) ==
    [coin |-> coin, isFav |-> favoritesIncludes(favoriteIds, coin.id)]

\* renderCoins(coins, favoriteIds).  threw: buildCoinCard raised a TypeError
\* (favoriteIds has no includes), after the banner and the panel were hidden
\* and before the grid was written.
renderCoins(e, coins, favoriteIds) ==
    LET e1 == hideError(Called(e, "renderCoins"))
        e2 == hideEmpty(e1)
    IN  IF coins = <<>>
        THEN [threw |-> FALSE,
              e |-> showEmpty([e1 EXCEPT !.dom.coinGrid = EmptyGrid], "no-match")]
        ELSE IF NoProperties(favoriteIds) THEN [threw |-> TRUE, e |-> e2]
        ELSE [threw |-> FALSE,
              e |-> [e2 EXCEPT !.dom.coinGrid =
                        [kind |-> "cards",
                         cards |-> [i \in 1..Len(coins) |->
                                       buildCoinCard(coins[i], favoriteIds)]]]]

showError(e, message) ==
    [hideEmpty([Called(e, "showError") EXCEPT !.dom.coinGrid = EmptyGrid])
        EXCEPT !.errorMsg = message,
               !.dom.errorBannerHidden = FALSE]

showWatchlistEmpty(e) ==
    showEmpty([Called(e, "showWatchlistEmpty") EXCEPT !.dom.coinGrid = EmptyGrid],
              "watchlist-empty")

showToast(e, toast) == [Called(e, "showToast") EXCEPT !.toast = toast]

updateStats(e, total, showing, favorites) ==
    [Called(e, "updateStats") EXCEPT !.stats =
        [total |-> total, showing |-> showing, favorites |-> favorites]]

applyTheme(e, theme) == [Called(e, "applyTheme") EXCEPT !.dom.dataTheme = theme]

\* setRefreshSpinner(active)
setRefreshSpinner(e, active) == [e EXCEPT !.dom.spinning = active]

(***************************************************************************)
(* App.js: the State object and the render coordinator.                    *)
(***************************************************************************)
\* the defaults handed to loadFromStorage by the State literal
DefaultFavorites == Arr(<<>>)

DefaultSortBy == Str("market_cap")

DefaultSortOrder == Str("desc")

DefaultTheme == Str("dark")

\* const State = { ... }: the object as the module builds it
NewStateUnhydrated(store) ==
    [allCoins      |-> <<>>,
     favorites     |-> DefaultFavorites,
     searchQuery   |-> <<>>,
     sortBy        |-> DefaultSortBy,
     sortOrder     |-> DefaultSortOrder,
     theme         |-> DefaultTheme,
     watchlistOnly |-> FALSE,
     isLoading     |-> FALSE]

NewState(store) ==
    [allCoins      |-> <<>>,
     favorites     |-> loadFromStorage(store, STORAGE_KEYS.FAVORITES,
                                       DefaultFavorites, FALSE).value,
     searchQuery   |-> <<>>,
     sortBy        |-> loadFromStorage(store, STORAGE_KEYS.SORT_BY,
                                       DefaultSortBy, FALSE).value,
     sortOrder     |-> loadFromStorage(store, STORAGE_KEYS.SORT_ORDER,
                                       DefaultSortOrder, FALSE).value,
     theme         |-> loadFromStorage(store, STORAGE_KEYS.THEME,
                                       DefaultTheme, FALSE).value,
     watchlistOnly |-> FALSE,
     isLoading     |-> FALSE]

\* renderView(), reading state S.  threw: a TypeError left it, raised by
\* deriveVisibleCoins, by renderCoins or by State.favorites.length.
renderView(S, e) ==
    LET visible == deriveVisibleCoins(S)
        e1 == Called(Called(e, "renderView"), "deriveVisibleCoins")
        r  == renderCoins(e1, visible.value, S.favorites)
    IN  IF visible.threw THEN [threw |-> TRUE, e |-> e1]
        ELSE IF r.threw THEN r
        ELSE IF NoProperties(S.favorites) THEN [threw |-> TRUE, e |-> r.e]
        ELSE [threw |-> FALSE,
              e |-> updateStats(r.e, Len(S.allCoins), Len(visible.value),
                                length(S.favorites))]


(***************************************************************************)
(* App.js: the handlers.  Each takes the state S, the storage, the         *)
(* environment e and its inputs, and returns what it leaves behind:        *)
(* [S, store, e, threw], threw meaning an exception left the handler.      *)
(***************************************************************************)
Done(S, store, e) == [S |-> S, store |-> store, e |-> e, threw |-> FALSE]

Thrown(S, store, e) == [S |-> S, store |-> store, e |-> e, threw |-> TRUE]

\* a handler's last statement is renderView()
ThenRenderView(S, store, e) ==
    LET r == renderView(S, e)
    IN  [S |-> S, store |-> store, e |-> r.e, threw |-> r.threw]

\* loadData() up to its await.  fetched: fetchCoins() was called.
loadDataUnguarded(S, e) ==
    [S |-> [S EXCEPT !.isLoading = TRUE],
     e |-> Called(renderSkeletons(setRefreshSpinner(Called(e, "loadData"), TRUE), 20),
                  "fetchCoins"),
     fetched |-> TRUE]

loadData(S, e) ==
    IF S.isLoading
    THEN [S |-> S, e |-> Called(e, "loadData"), fetched |-> FALSE]
    ELSE [S |-> [S EXCEPT !.isLoading = TRUE],
          e |-> Called(renderSkeletons(setRefreshSpinner(Called(e, "loadData"), TRUE),
                                       20),
                       "fetchCoins"),
          fetched |-> TRUE]

\* the finally block of loadData, after a try/catch that left c behind;
\* c.threw: an exception is on its way out of loadData
loadDataFinallyKeepingFlag(c) ==
    [S |-> c.S, e |-> setRefreshSpinner(c.e, FALSE), threw |-> c.threw]

loadDataFinally(c) ==
    [S |-> [c.S EXCEPT !.isLoading = FALSE], e |-> setRefreshSpinner(c.e, FALSE),
     threw |-> c.threw]

\* the catch block of loadData, entered with err.message = message
loadDataCatch(S, e, message) ==
    [S |-> S, e |-> showToast(showError(e, message), Toast("failed", "danger", 0, "")),
     threw |-> FALSE]

\* loadData() from the rejection of fetchCoins() with err.message = message
loadDataRejectedClearing(S, e, message) ==
    loadDataFinally(loadDataCatch([S EXCEPT !.allCoins = <<>>], e, message))

loadDataRejected(S, e, message) ==
    loadDataFinally(loadDataCatch(S, e, message))

\* loadData() from the fulfilment of fetchCoins() with coins; a TypeError
\* raised by renderView() is caught by the same catch block.
loadDataResolvedAppending(S, e, coins) ==
    LET S1 == [S EXCEPT !.allCoins = @ \o coins]
        r  == renderView(S1, e)
    IN  loadDataFinally(
            IF r.threw THEN loadDataCatch(S1, r.e, "TypeError")
            ELSE [S |-> S1,
                  e |-> showToast(r.e, Toast("loaded", "success", Len(coins), "")),
                  threw |-> FALSE])

loadDataResolved(S, e, coins) ==
    LET S1 == [S EXCEPT !.allCoins = coins]
        r  == renderView(S1, e)
    IN  loadDataFinally(
            IF r.threw THEN loadDataCatch(S1, r.e, "TypeError")
            ELSE [S |-> S1,
                  e |-> showToast(r.e, Toast("loaded", "success", Len(coins), "")),
                  threw |-> FALSE])

\* toggleFavorite(coinId)
toggleFavoriteWithoutEmptyCheck(S, store, e, coinId, accepted) ==
    IF NoProperties(S.favorites) THEN Thrown(S, store, e)
    ELSE IF S.favorites.t = "string" /\ favoritesIncludes(S.favorites, coinId)
    THEN Thrown(S, store, e)
    ELSE
    LET isNowFav == favoritesIncludes(S.favorites, coinId)
        keep(v)  == v # Str(coinId)
        S1 == [S EXCEPT !.favorites =
                  IF isNowFav THEN Arr(SelectSeq(@.a, keep))
                  ELSE Arr(Append(spread(@), Str(coinId)))]
        e1 == showToast(e, IF isNowFav THEN Toast("removed", "info", 0, coinId)
                           ELSE Toast("added", "success", 0, coinId))
        w  == saveToStorage(store, STORAGE_KEYS.FAVORITES, S1.favorites, accepted)
        r  == renderView(S1, e1)
    IN  IF r.threw THEN Thrown(S1, w.store, r.e) ELSE Done(S1, w.store, r.e)

toggleFavorite(S, store, e, coinId, accepted) ==
    IF NoProperties(S.favorites) THEN Thrown(S, store, e)
    ELSE IF S.favorites.t = "string" /\ favoritesIncludes(S.favorites, coinId)
    THEN Thrown(S, store, e)     \* a string has no filter: TypeError
    ELSE
    LET isNowFav == favoritesIncludes(S.favorites, coinId)
        keep(v)  == v # Str(coinId)
        S1 == [S EXCEPT !.favorites =
                  IF isNowFav THEN Arr(SelectSeq(@.a, keep))
                  ELSE Arr(Append(spread(@), Str(coinId)))]
        e1 == showToast(e, IF isNowFav THEN Toast("removed", "info", 0, coinId)
                           ELSE Toast("added", "success", 0, coinId))
        w  == saveToStorage(store, STORAGE_KEYS.FAVORITES, S1.favorites, accepted)
        r  == renderView(S1, e1)
    IN  IF w.threw THEN Thrown(S1, w.store, e1)
        ELSE IF r.threw THEN Thrown(S1, w.store, r.e)
        ELSE IF S1.watchlistOnly /\ length(S1.favorites) = 0
        THEN Done(S1, w.store, showWatchlistEmpty(r.e))
        ELSE Done(S1, w.store, r.e)

\* toggleTheme()
toggleTheme(S, store, e, accepted) ==
    LET S1 == [S EXCEPT !.theme = IF @ = Str("dark") THEN Str("light")
                                  ELSE Str("dark")]
        e1 == applyTheme(e, S1.theme)
        w  == saveToStorage(store, STORAGE_KEYS.THEME, S1.theme, accepted)
    IN  IF w.threw THEN Thrown(S1, w.store, e1)
        ELSE Done(S1, w.store,
                  showToast(e1, Toast(IF S1.theme = Str("dark") THEN "dark-mode"
                                      ELSE "light-mode", "info", 0, "")))

\* searchInput 'input' listener, e.target.value = text
onSearchInputPersisting(S, store, e, text) ==
    ThenRenderView([S EXCEPT !.searchQuery = text],
                   saveToStorage(store, STORAGE_KEYS.SORT_BY, S.sortBy, TRUE).store,
                   [e EXCEPT !.dom.clearSearchHidden = (Len(text) = 0)])

onSearchInput(S, store, e, text) ==
    ThenRenderView([S EXCEPT !.searchQuery = text], store,
                   [e EXCEPT !.dom.clearSearchHidden = (Len(text) = 0)])

\* clearSearch 'click' listener
onClearSearch(S, store, e) ==
    ThenRenderView([S EXCEPT !.searchQuery = <<>>], store,
                   [e EXCEPT !.dom.clearSearchHidden = TRUE])

\* sortSelect 'change' listener, e.target.value = field
onSortChangeUnsaved(S, store, e, field, accepted) ==
    ThenRenderView([S EXCEPT !.sortBy = Str(field)], store, e)

onSortChange(S, store, e, field, accepted) ==
    LET S1 == [S EXCEPT !.sortBy = Str(field)]
        w  == saveToStorage(store, STORAGE_KEYS.SORT_BY, S1.sortBy, accepted)
    IN  IF w.threw THEN Thrown(S1, w.store, e)
        ELSE ThenRenderView(S1, w.store, e)

\* sortOrderBtn 'click' listener
onSortOrderClick(S, store, e, accepted) ==
    LET S1 == [S EXCEPT !.sortOrder = IF @ = Str("desc") THEN Str("asc")
                                      ELSE Str("desc")]
        w  == saveToStorage(store, STORAGE_KEYS.SORT_ORDER, S1.sortOrder, accepted)
    IN  IF w.threw THEN Thrown(S1, w.store, e)
        ELSE ThenRenderView(S1, w.store,
                 [e EXCEPT !.dom.sortOrderAsc = (S1.sortOrder = Str("asc"))])

\* watchlistToggle 'click' listener
onWatchlistClick(S, store, e) ==
    LET S1 == [S EXCEPT !.watchlistOnly = ~@]
        e1 == [e EXCEPT !.dom.ariaPressed = S1.watchlistOnly]
    IN  IF S1.watchlistOnly /\ NoProperties(S1.favorites) THEN Thrown(S1, store, e1)
        ELSE IF S1.watchlistOnly /\ length(S1.favorites) = 0
        THEN Done(S1, store, updateStats(showWatchlistEmpty(e1), Len(S1.allCoins), 0, 0))
        ELSE ThenRenderView(S1, store, e1)

\* restoreUIState()
restoreUIState(S, e) ==
    [applyTheme(Called(e, "restoreUIState"), S.theme)
        EXCEPT !.dom.sortOrderAsc = (S.sortOrder = Str("asc"))]


(***************************************************************************)
(* The inputs the environment supplies.                                    *)
(***************************************************************************)
\* what fetchCoins() can resolve with: a non-empty list of normalized coins
Responses == {<<Alfa, Beta>>, <<Beta, Alfa2>>}

\* the messages of the Errors fetchCoins() rejects with
FetchErrors == {"Network request failed.", "No coin data returned by the API."}

\* what the user types into the search box
Queries == {<<" ", "B", "e">>, <<"z", "z">>}

\* the options of the sort select
SortOptions == {"market_cap", "name"}

\* what localStorage can hold when the page is opened
FreshStore == [k \in Keys |-> Absent]

SavedStore ==
    [k \in Keys |->
        CASE k = STORAGE_KEYS.FAVORITES  -> Entry(JSONstringify(StrArr(<<"b">>)))
          [] k = STORAGE_KEYS.THEME      -> Entry(JSONstringify(Str("light")))
          [] k = STORAGE_KEYS.SORT_BY    -> Entry(JSONstringify(Str("name")))
          [] k = STORAGE_KEYS.SORT_ORDER -> Entry(JSONstringify(Str("asc")))]

\* text that is not JSON
DamagedStore ==
    [k \in Keys |->
        CASE k = STORAGE_KEYS.FAVORITES  -> Entry(<<"[", Quote, "a", Quote>>)
          [] k = STORAGE_KEYS.THEME      -> Entry(<<"light">>)
          [] k = STORAGE_KEYS.SORT_BY    -> Entry(<<Quote, "name">>)
          [] k = STORAGE_KEYS.SORT_ORDER -> Entry(<<>>)]

\* JSON that is not what the application writes
ForeignStore ==
    [k \in Keys |->
        CASE k = STORAGE_KEYS.FAVORITES  -> Entry(<<"null">>)
          [] k = STORAGE_KEYS.THEME      -> Entry(<<"42">>)
          [] k = STORAGE_KEYS.SORT_BY    -> Entry(<<Quote, "toString", Quote>>)
          [] k = STORAGE_KEYS.SORT_ORDER -> Entry(<<Quote, "up", Quote>>)]

\* favorites holding a JSON string instead of an array
TextStore == [FreshStore EXCEPT ![STORAGE_KEYS.FAVORITES] = Entry(JSONstringify(Str("a")))]

InitialStores == {FreshStore, SavedStore, DamagedStore, ForeignStore, TextStore}

(***************************************************************************)
(* The state machine.                                                      *)
(***************************************************************************)
\* nothing applied directly yet
NoProbe ==
    [fn |-> "none", kind |-> "none", key |-> "", raw |-> <<>>, stored |-> Null,
     denied |-> FALSE,
     defaultValue |-> Null, out |-> [threw |-> FALSE, value |-> Null],
     S |-> NewState(FreshStore), visible |-> [threw |-> FALSE, value |-> <<>>]]

\* the record of a handler run: which handler, the calls it made, what it
\* wrote into the toast, the error message and the counters, whether an
\* exception left it, the settlement of fetchCoins() it resumed from,
\* whether the browser refused its localStorage write, and (set by a click on
\* a .favorite-btn) the data-id of the button
Ran(cmd, e, threw, error, coins, refused) ==
    [cmd |-> cmd, calls |-> e.calls, toast |-> e.toast, errorMsg |-> e.errorMsg,
     stats |-> e.stats, threw |-> threw, error |-> error, coins |-> coins,
     refused |-> refused, coinId |-> ""]

NoCalls == [calls |-> <<>>, toast |-> NoToast, errorMsg |-> "", stats |-> NoStats]

Env == [dom |-> dom, calls |-> <<>>, toast |-> NoToast, errorMsg |-> "",
        stats |-> NoStats]

\* the handlers that start loadData
LoadTriggers == {"refreshBtn", "retryBtn", "setInterval"}

Init ==
    /\ localStorage \in InitialStores
    /\ State = NewState(localStorage)
    /\ dom = InitialDom
    /\ fetches = 0
    /\ pc = "constructed"
    /\ last = Ran("module", NoCalls, FALSE, "", <<>>, FALSE)
    /\ rejectedWrites = 0
    /\ events = 0
    /\ probe = NoProbe

\* ENTRY POINT: restoreUIState(); bindEvents(); loadData();
EntryPoint ==
    /\ pc = "constructed"
    /\ LET r == loadData(State, restoreUIState(State, Env))
       IN  /\ State' = r.S
           /\ dom' = r.e.dom
           /\ fetches' = fetches + (IF r.fetched THEN 1 ELSE 0)
           /\ last' = Ran("entry", r.e, FALSE, "", <<>>, FALSE)
    /\ pc' = "running"
    /\ UNCHANGED <<localStorage, rejectedWrites, events, probe>>

\* refreshBtn click, retryBtn click (hideError first), or the 90 s interval
LoadData(trigger) ==
    /\ pc = "running"
    /\ events < MaxEvents
    /\ fetches < MaxPending
    /\ LET r == loadData(State, IF trigger = "retryBtn" THEN hideError(Env) ELSE Env)
       IN  /\ State' = r.S
           /\ dom' = r.e.dom
           /\ fetches' = fetches + (IF r.fetched THEN 1 ELSE 0)
           /\ last' = Ran(trigger, r.e, FALSE, "", <<>>, FALSE)
    /\ events' = events + 1
    /\ UNCHANGED <<localStorage, pc, rejectedWrites, probe>>

\* a pending fetchCoins() is fulfilled with coins and loadData resumes
FetchResolved(coins) ==
    /\ pc = "running"
    /\ fetches > 0
    /\ LET r == loadDataResolved(State, Env, coins)
       IN  /\ State' = r.S
           /\ dom' = r.e.dom
           /\ last' = Ran("fetchCoins:fulfilled", r.e, r.threw, "", coins, FALSE)
    /\ fetches' = fetches - 1
    /\ UNCHANGED <<localStorage, pc, rejectedWrites, events, probe>>

\* a pending fetchCoins() is rejected with an Error and loadData resumes
FetchRejected(message) ==
    /\ pc = "running"
    /\ fetches > 0
    /\ LET r == loadDataRejected(State, Env, message)
       IN  /\ State' = r.S
           /\ dom' = r.e.dom
           /\ last' = Ran("fetchCoins:rejected", r.e, r.threw, message, <<>>, FALSE)
    /\ fetches' = fetches - 1
    /\ UNCHANGED <<localStorage, pc, rejectedWrites, events, probe>>

\* an event handler ran with the button's data-id coinId and left r behind
HandledWith(cmd, r, refused, coinId) ==
    /\ State' = r.S
    /\ localStorage' = r.store
    /\ dom' = r.e.dom
    /\ last' = [Ran(cmd, r.e, r.threw, "", <<>>, refused) EXCEPT !.coinId = coinId]
    /\ rejectedWrites' = rejectedWrites + (IF refused THEN 1 ELSE 0)
    /\ events < MaxEvents
    /\ events' = events + 1
    /\ UNCHANGED <<fetches, pc, probe>>

\* an event handler ran and left r behind
Handled(cmd, r, refused) == HandledWith(cmd, r, refused, "")

\* whether the browser may refuse one more write
MayAccept(accepted) == accepted \/ rejectedWrites < MaxRejected

SearchInput(text) ==
    /\ pc = "running"
    /\ Handled("searchInput", onSearchInput(State, localStorage, Env, text), FALSE)

ClearSearch ==
    /\ pc = "running"
    /\ Handled("clearSearch", onClearSearch(State, localStorage, Env), FALSE)

SortChange(field, accepted) ==
    /\ pc = "running"
    /\ MayAccept(accepted)
    /\ Handled("sortSelect", onSortChange(State, localStorage, Env, field, accepted),
               ~accepted)

SortOrderClick(accepted) ==
    /\ pc = "running"
    /\ MayAccept(accepted)
    /\ Handled("sortOrderBtn", onSortOrderClick(State, localStorage, Env, accepted),
               ~accepted)

WatchlistClick ==
    /\ pc = "running"
    /\ Handled("watchlistToggle", onWatchlistClick(State, localStorage, Env), FALSE)

ThemeClick(accepted) ==
    /\ pc = "running"
    /\ MayAccept(accepted)
    /\ Handled("themeToggle", toggleTheme(State, localStorage, Env, accepted), ~accepted)

\* a click on the .favorite-btn of a card in the grid
FavoriteClick(i, accepted) ==
    /\ pc = "running"
    /\ MayAccept(accepted)
    /\ HandledWith("favorite-btn",
                   toggleFavorite(State, localStorage, Env,
                                  dom.coinGrid.cards[i].coin.id, accepted),
                   ~accepted, dom.coinGrid.cards[i].coin.id)

\* the page is reloaded: pending promises are gone, the module runs again
Reload ==
    /\ pc = "running"
    /\ events < MaxEvents
    /\ events' = events + 1
    /\ State' = NewState(localStorage)
    /\ dom' = InitialDom
    /\ fetches' = 0
    /\ pc' = "constructed"
    /\ last' = Ran("module", NoCalls, FALSE, "", <<>>, FALSE)
    /\ UNCHANGED <<localStorage, rejectedWrites, probe>>

Next ==
    \/ EntryPoint
    \/ \E trigger \in LoadTriggers : LoadData(trigger)
    \/ \E coins \in Responses : FetchResolved(coins)
    \/ \E message \in FetchErrors : FetchRejected(message)
    \/ \E text \in Queries : SearchInput(text)
    \/ ClearSearch
    \/ \E field \in SortOptions, accepted \in BOOLEAN : SortChange(field, accepted)
    \/ \E accepted \in BOOLEAN : SortOrderClick(accepted)
    \/ WatchlistClick
    \/ \E accepted \in BOOLEAN : ThemeClick(accepted)
    \/ \E i \in 1..Len(dom.coinGrid.cards), accepted \in BOOLEAN :
            FavoriteClick(i, accepted)
    \/ Reload

Spec == Init /\ [][Next]_vars


(***************************************************************************)
(* The helpers applied directly to inputs drawn from bounded sets:         *)
(* loadFromStorage to any entry, deriveVisibleCoins to any state.          *)
(***************************************************************************)
\* values a localStorage entry may have been written from
StoredValues ==
    {Str("dark"), Str("light"), Str("banana"), Str(""), Str("market_cap"),
     Null, Num("42"), Arr(<<>>), StrArr(<<"a">>), StrArr(<<"a", "b">>),
     Arr(<<Null>>), Arr(<<StrArr(<<"a">>), Num("0")>>)}

\* texts JSON.parse rejects
DamagedTexts ==
    {<<>>, <<"light">>, <<Quote, "name">>, <<"[", Quote, "a", Quote>>,
     <<"[", "]", "]">>, <<"[", ",", "]">>, <<"null", "null">>,
     <<"[", Quote, "a", Quote, ",", "]">>, <<"]">>, <<Quote, "a", Quote, Quote>>}

\* the (key, defaultValue) pairs of the State literal
Reads ==
    {<<STORAGE_KEYS.FAVORITES, DefaultFavorites>>, <<STORAGE_KEYS.THEME, DefaultTheme>>,
     <<STORAGE_KEYS.SORT_BY, DefaultSortBy>>, <<STORAGE_KEYS.SORT_ORDER, DefaultSortOrder>>}

ProbeLoad(kind, rd, entry, stored, denied) ==
    /\ probe' = [NoProbe EXCEPT
                    !.fn = "loadFromStorage", !.kind = kind, !.key = rd[1],
                    !.raw = entry.raw, !.stored = stored, !.denied = denied,
                    !.defaultValue = rd[2],
                    !.out = loadFromStorage([FreshStore EXCEPT ![rd[1]] = entry],
                                            rd[1], rd[2], denied)]
    /\ UNCHANGED <<State, localStorage, dom, fetches, pc, last, rejectedWrites, events>>

\* loadFromStorage against an entry that is missing
ProbeLoadAbsent(rd, denied) == ProbeLoad("absent", rd, Absent, Null, denied)

\* loadFromStorage against an entry written by JSON.stringify(stored)
ProbeLoadStored(rd, stored, denied) ==
    ProbeLoad("stored", rd, Entry(JSONstringify(stored)), stored, denied)

\* loadFromStorage against an entry holding text that is not JSON
ProbeLoadDamaged(rd, text, denied) ==
    ProbeLoad("damaged", rd, Entry(text), Null, denied)

CoinPool == {Alfa, Beta, Alfa2, Zeta}

CoinLists == UNION {[1..n -> CoinPool] : n \in 0..MaxCoins}

ProbeQueries == {<<>>, <<" ", "B", "e">>, <<"e", "t">>, <<"z", "z">>}

ProbeFavorites == {Arr(<<>>), StrArr(<<"a">>), StrArr(<<"z", "b">>), Null}

ProbeSortBy ==
    {Str("market_cap"), Str("price"), Str("change"), Str("name"), Str("volume"),
     Str("toString"), Str("banana"), Str("valueOf"), Str("__proto__")}

ProbeSortOrder == {Str("asc"), Str("desc"), Str("up")}

\* deriveVisibleCoins() with State = S
ProbeDerive(S) ==
    /\ probe' = [NoProbe EXCEPT !.fn = "deriveVisibleCoins", !.S = S,
                                !.visible = deriveVisibleCoins(S)]
    /\ UNCHANGED <<State, localStorage, dom, fetches, pc, last, rejectedWrites, events>>

InitPure ==
    /\ localStorage = FreshStore
    /\ State = NewState(localStorage)
    /\ dom = InitialDom
    /\ fetches = 0
    /\ pc = "constructed"
    /\ last = Ran("module", NoCalls, FALSE, "", <<>>, FALSE)
    /\ rejectedWrites = 0
    /\ events = 0
    /\ probe = NoProbe

\* each helper is applied once, to fresh inputs
NextPure ==
    \/ /\ probe = NoProbe
       /\ \E rd \in Reads, denied \in BOOLEAN : ProbeLoadAbsent(rd, denied)
    \/ /\ probe = NoProbe
       /\ \E rd \in Reads, stored \in StoredValues, denied \in BOOLEAN :
               ProbeLoadStored(rd, stored, denied)
    \/ /\ probe = NoProbe
       /\ \E rd \in Reads, text \in DamagedTexts, denied \in BOOLEAN :
               ProbeLoadDamaged(rd, text, denied)
    \/ /\ probe = NoProbe
       /\ \E coins \in CoinLists, q \in ProbeQueries, w \in BOOLEAN,
             f \in ProbeFavorites, by \in ProbeSortBy, order \in ProbeSortOrder :
               ProbeDerive([NewState(FreshStore) EXCEPT
                               !.allCoins = coins, !.searchQuery = q,
                               !.watchlistOnly = w, !.favorites = f,
                               !.sortBy = by, !.sortOrder = order])

SpecPure == InitPure /\ [][NextPure]_vars


(***************************************************************************)
(* A second specification for liveness: a pending fetchCoins() settles.    *)
(* fetchCoins() aborts its request after its timeout, so its promise is    *)
(* fulfilled or rejected and loadData resumes.  FetchSettles is what every *)
(* FetchResolved and FetchRejected step does to the pending fetches, and   *)
(* no other step of Next does it, so the condition below is weak fairness  *)
(* of the two settlements together.                                        *)
(***************************************************************************)
FetchSettles ==
    /\ pc = "running"
    /\ fetches > 0
    /\ fetches' = fetches - 1
    /\ pc' = pc

SpecLive == Init /\ [][Next]_vars /\ WF_fetches(FetchSettles)

(***************************************************************************)
(* Properties.                                                             *)
(***************************************************************************)
Range(seq) == {seq[i] : i \in 1..Len(seq)}

\* the step is a run of one of the handlers that call loadData
IsLoadTrigger == events' = events + 1 /\ last'.cmd \in LoadTriggers

\* the step resumes loadData from a settled fetchCoins()
IsSettlement(cmd) == FetchSettles /\ last'.cmd = cmd

\* C1: loadData invoked by the refresh button, the retry button or the timer
\* while isLoading is true calls no Data Source and leaves every field of
\* State unchanged; a fetch only ever starts inside a loadData invocation
\* that found isLoading false, so a dropped request starts none later.
C1_LoadDataWhileLoadingIsDropped ==
    [][ /\ (IsLoadTrigger /\ State.isLoading) =>
              /\ State' = State
              /\ fetches' = fetches
              /\ "fetchCoins" \notin Range(last'.calls)
        /\ (fetches' > fetches) =>
              /\ ~State.isLoading
              /\ last'.cmd \in LoadTriggers \cup {"entry"}
              /\ fetches' = fetches + 1 ]_vars

C1_DroppedRequest ==
    /\ State.isLoading
    /\ fetches = 1
    /\ last.cmd \in {"refreshBtn", "retryBtn"}
    /\ "loadData" \in Range(last.calls)
    /\ "fetchCoins" \notin Range(last.calls)

\* C2: at most one fetch started by loadData is in flight, whatever the
\* interleaving of refresh clicks, retry clicks, timer ticks and commands.
C2_AtMostOneFetchInFlight == fetches <= 1

C2_TimerTickDuringFetch ==
    /\ fetches = 1
    /\ events >= 2
    /\ last.cmd = "setInterval"
    /\ "fetchCoins" \notin Range(last.calls)

\* C3: when fetchCoins() rejects, allCoins is what it was, the Error's
\* message is what showError was given, the failure toast is shown and no
\* exception leaves loadData.
C3_FailureKeepsStaleData ==
    [][ IsSettlement("fetchCoins:rejected") =>
            /\ State'.allCoins = State.allCoins
            /\ "showError" \in Range(last'.calls)
            /\ last'.errorMsg = last'.error
            /\ ~dom'.errorBannerHidden
            /\ last'.toast = Toast("failed", "danger", 0, "")
            /\ ~last'.threw ]_vars

C3_FailedWithStaleData ==
    /\ last.cmd = "fetchCoins:rejected"
    /\ State.allCoins # <<>>
    /\ last.errorMsg \in FetchErrors
    /\ ~State.isLoading

\* C4: once isLoading is true it becomes false again (given that the fetch
\* settles), on the fulfilled and on the rejected outcome alike, and a
\* loadData invoked after that starts a fetch again.
C4_LoadingAlwaysClears ==
    /\ State.isLoading ~> ~State.isLoading
    /\ [][ /\ (IsSettlement("fetchCoins:fulfilled") \/ IsSettlement("fetchCoins:rejected"))
                => ~State'.isLoading
           /\ (IsLoadTrigger /\ ~State.isLoading)
                => (State'.isLoading /\ fetches' = fetches + 1) ]_vars

C4_LoadAcceptedAgain ==
    /\ last.cmd = "refreshBtn"
    /\ events >= 2
    /\ "fetchCoins" \in Range(last.calls)
    /\ State.isLoading
    /\ State.allCoins # <<>>

\* what the grid and the empty panel show when renderCoins was given coins
Shows(d, coins) ==
    IF coins = <<>> THEN d.coinGrid = EmptyGrid /\ ~d.emptyStateHidden
    ELSE /\ d.coinGrid.kind = "cards"
         /\ [i \in 1..Len(d.coinGrid.cards) |-> d.coinGrid.cards[i].coin] = coins
         /\ d.emptyStateHidden

\* C5: when fetchCoins() fulfils, allCoins becomes exactly the returned list,
\* the view is derived anew from it with the current query, watchlist flag,
\* favorites and sort settings, and the success toast is shown.
C5_SuccessReplacesAndRenders ==
    [][ IsSettlement("fetchCoins:fulfilled") =>
            /\ State'.allCoins = last'.coins
            /\ ~deriveVisibleCoins(State').threw
            /\ Shows(dom', deriveVisibleCoins(State').value)
            /\ last'.toast = Toast("loaded", "success", Len(last'.coins), "") ]_vars

\* the same, for the runs in which State.favorites is an array
C5_SuccessWithFavoritesArray ==
    [][ (IsSettlement("fetchCoins:fulfilled") /\ State.favorites.t = "array") =>
            /\ State'.allCoins = last'.coins
            /\ ~deriveVisibleCoins(State').threw
            /\ Shows(dom', deriveVisibleCoins(State').value)
            /\ last'.toast = Toast("loaded", "success", Len(last'.coins), "") ]_vars

SortFields == {"market_cap", "price", "change", "name", "volume"}

\* C6: in every reachable state sortBy is one of the five sort fields,
\* sortOrder is asc or desc and theme is dark or light, whatever localStorage
\* held when the page was opened.
C6_EnumsAlwaysValid ==
    /\ State.sortBy \in {Str(f) : f \in SortFields}
    /\ State.sortOrder \in {Str("asc"), Str("desc")}
    /\ State.theme \in {Str("dark"), Str("light")}

\* C7: in every reachable state allCoins is a list of coin records and
\* favorites is an array of ids, whatever localStorage held at startup.
C7_CollectionsNeverNull ==
    /\ \A i \in 1..Len(State.allCoins) : State.allCoins[i] \in CoinPool
    /\ State.favorites.t = "array"
    /\ \A i \in 1..Len(State.favorites.a) : State.favorites.a[i].t = "string"

\* C8: loadFromStorage(key, defaultValue) never throws; it returns
\* defaultValue when the entry is missing, when the lookup fails or when the
\* text is not JSON, and otherwise the value the text was serialized from.
C8_ReadFallsBackToDefault ==
    probe.fn = "loadFromStorage" =>
        /\ ~probe.out.threw
        /\ probe.out.value = IF probe.kind = "stored" /\ ~probe.denied
                             THEN probe.stored ELSE probe.defaultValue

C8_ThemeReadFromDamagedEntry ==
    /\ probe.fn = "loadFromStorage"
    /\ probe.kind = "damaged"
    /\ ~probe.denied
    /\ probe.key = STORAGE_KEYS.THEME
    /\ probe.raw = <<"light">>
    /\ probe.out = [threw |-> FALSE, value |-> Str("dark")]

\* what the handler of the step leaves behind when its write is accepted
WithWriteAccepted ==
    CASE last'.cmd = "sortSelect" ->
            onSortChange(State, localStorage, Env, State'.sortBy.s, TRUE)
      [] last'.cmd = "sortOrderBtn" -> onSortOrderClick(State, localStorage, Env, TRUE)
      [] last'.cmd = "themeToggle" -> toggleTheme(State, localStorage, Env, TRUE)
      [] last'.cmd = "favorite-btn" ->
            toggleFavorite(State, localStorage, Env, last'.coinId, TRUE)

\* C9: when localStorage refuses the write of setSort, toggleSortOrder,
\* toggleFavorite or toggleTheme, the handler completes without an exception,
\* State and the page are what they are when the write is accepted, and the
\* entry in localStorage keeps its previous value.
C9_RefusedWriteStillCompletes ==
    [][ (events' = events + 1 /\ last'.refused) =>
            /\ last'.cmd \in {"sortSelect", "sortOrderBtn", "themeToggle", "favorite-btn"}
            /\ ~last'.threw
            /\ State' = WithWriteAccepted.S
            /\ dom' = WithWriteAccepted.e.dom
            /\ localStorage' = localStorage ]_vars

\* the part of C9 that is about the write alone: the handler ends as it ends
\* when the write is accepted (the same State, page, calls and toast, and an
\* exception leaves it only if one leaves it with the write accepted)
C9_RefusedWriteChangesNothingElse ==
    [][ (events' = events + 1 /\ last'.refused) =>
            /\ last'.cmd \in {"sortSelect", "sortOrderBtn", "themeToggle", "favorite-btn"}
            /\ State' = WithWriteAccepted.S
            /\ dom' = WithWriteAccepted.e.dom
            /\ last'.calls = WithWriteAccepted.e.calls
            /\ last'.toast = WithWriteAccepted.e.toast
            /\ last'.threw = WithWriteAccepted.threw
            /\ localStorage' = localStorage ]_vars

C9_RefusedFavoriteWrite ==
    /\ last.cmd = "favorite-btn"
    /\ last.refused
    /\ ~last.threw
    /\ State.favorites = StrArr(<<"a">>)
    /\ ~localStorage[STORAGE_KEYS.FAVORITES].present
    /\ dom.coinGrid.kind = "cards"

Count(seq, x) == Cardinality({i \in 1..Len(seq) : seq[i] = x})

\* C10: every record deriveVisibleCoins returns is a record of allCoins, and
\* it returns no record more often than allCoins holds it.
C10_DerivationInventsNothing ==
    (probe.fn = "deriveVisibleCoins" /\ ~probe.visible.threw) =>
        \A c \in Range(probe.visible.value) :
            /\ c \in Range(probe.S.allCoins)
            /\ Count(probe.visible.value, c) <= Count(probe.S.allCoins, c)

C10_FilteredListWithRepeats ==
    /\ probe.fn = "deriveVisibleCoins"
    /\ probe.S.allCoins = <<Beta, Alfa, Beta>>
    /\ probe.S.searchQuery = <<" ", "B", "e">>
    /\ probe.visible = [threw |-> FALSE, value |-> <<Beta, Beta>>]

\* q occurs in text as a run of consecutive characters
IsSubstring(q, text) ==
    \E i \in 1..(Len(text) + 1) :
        /\ i + Len(q) - 1 <= Len(text)
        /\ \A k \in 1..Len(q) : text[i + k - 1] = q[k]

\* text without its leading and trailing blanks
Trimmed(text) ==
    LET inked == {i \in 1..Len(text) : text[i] # " "}
    IN  IF inked = {} THEN <<>>
        ELSE SubSeq(text, CHOOSE i \in inked : \A j \in inked : i <= j,
                          CHOOSE i \in inked : \A j \in inked : i >= j)

\* the record c passes the search filter and the watchlist filter of S
Keeps(S, c) ==
    LET q == toLowerCase(Trimmed(S.searchQuery))
    IN  /\ \/ q = <<>>
           \/ IsSubstring(q, toLowerCase(c.name))
           \/ IsSubstring(q, toLowerCase(c.symbol))
        /\ \/ ~S.watchlistOnly
           \/ \E i \in 1..Len(S.favorites.a) : S.favorites.a[i] = Str(c.id)

\* C11: a record of allCoins is in what deriveVisibleCoins returns, as often
\* as allCoins holds it, exactly when the trimmed, case-folded query is empty
\* or occurs in its case-folded name or symbol, and watchlistOnly is off or
\* its id is in favorites; nothing else is returned; and whatever ids an
\* array of favorites names, deriveVisibleCoins does not throw under any of
\* the five sort fields.
C11_KeepsExactlyTheMatches ==
    probe.fn = "deriveVisibleCoins" =>
        /\ (probe.visible.threw /\ probe.S.sortBy \in {Str(f) : f \in SortFields})
                => probe.S.favorites.t # "array"
        /\ ~probe.visible.threw =>
              /\ \A c \in Range(probe.S.allCoins) :
                    Count(probe.visible.value, c) =
                        IF Keeps(probe.S, c) THEN Count(probe.S.allCoins, c) ELSE 0
              /\ Len(probe.visible.value) =
                    Cardinality({i \in 1..Len(probe.S.allCoins) :
                                    Keeps(probe.S, probe.S.allCoins[i])})

C11_SymbolMatchOnWatchlist ==
    /\ probe.fn = "deriveVisibleCoins"
    /\ probe.S.allCoins = <<Zeta, Alfa, Beta>>
    /\ probe.S.searchQuery = <<"z", "z">>
    /\ probe.S.watchlistOnly
    /\ probe.S.favorites = StrArr(<<"z", "b">>)
    /\ probe.visible = [threw |-> FALSE, value |-> <<Zeta>>]

\* the difference of the sort keys of a and b under a sort field
SortKeyCompare(field, a, b) ==
    CASE field = "market_cap" -> a.market_cap - b.market_cap
      [] field = "price"      -> a.current_price - b.current_price
      [] field = "change"     -> a.price_change_percentage_24h
                                    - b.price_change_percentage_24h
      [] field = "name"       -> localeCompare(a.name, b.name)
      [] field = "volume"     -> a.total_volume - b.total_volume

\* the records that pass the filters of S, in the order of allCoins
Filtered(S) == LET keep(c) == Keeps(S, c) IN SelectSeq(S.allCoins, keep)

\* C12: for each of the five sort fields and both sort orders, what
\* deriveVisibleCoins returns is ordered by the field's comparator times the
\* direction of the order, and records whose sort keys are equal are in the
\* order they have among the filtered records of allCoins.
C12_SortedAndStable ==
    (/\ probe.fn = "deriveVisibleCoins"
     /\ ~probe.visible.threw
     /\ probe.S.sortBy \in {Str(f) : f \in SortFields}
     /\ probe.S.sortOrder \in {Str("asc"), Str("desc")}) =>
        LET v == probe.visible.value
            direction == IF probe.S.sortOrder = Str("asc") THEN 1 ELSE -1
            cmp(a, b) == direction * SortKeyCompare(probe.S.sortBy.s, a, b)
        IN  /\ \A i, j \in 1..Len(v) : i < j => cmp(v[i], v[j]) <= 0
            /\ \A c \in Range(v) :
                  LET tie(x) == cmp(x, c) = 0
                  IN  SelectSeq(v, tie) = SelectSeq(Filtered(probe.S), tie)

C12_TieKeptInDescendingOrder ==
    /\ probe.fn = "deriveVisibleCoins"
    /\ probe.S.allCoins = <<Zeta, Alfa2, Alfa>>
    /\ probe.S.sortBy = Str("market_cap")
    /\ probe.S.sortOrder = Str("desc")
    /\ probe.S.searchQuery = <<>>
    /\ ~probe.S.watchlistOnly
    /\ probe.visible = [threw |-> FALSE, value |-> <<Alfa, Zeta, Alfa2>>]

\* the environment of a handler that starts on the page d
EnvOf(d) == [dom |-> d, calls |-> <<>>, toast |-> NoToast, errorMsg |-> "",
             stats |-> NoStats]

\* the step is a run of the handler cmd
IsCommand(cmd) == events' = events + 1 /\ last'.cmd = cmd

\* C13: a click on the sort order button followed at once by a second one
\* leaves sortOrder what it was before the first, and deriveVisibleCoins
\* returns what it returned before the first.
C13_TwoTogglesRestore ==
    [][ IsCommand("sortOrderBtn") =>
            \A accepted \in BOOLEAN :
                LET again == onSortOrderClick(State', localStorage', EnvOf(dom'), accepted)
                IN  /\ again.S.sortOrder = State.sortOrder
                    /\ deriveVisibleCoins(again.S) = deriveVisibleCoins(State) ]_vars

\* the same, from the states whose sortOrder is 'asc' or 'desc'
C13_TwoTogglesRestoreAscDesc ==
    [][ (IsCommand("sortOrderBtn") /\ State.sortOrder \in {Str("asc"), Str("desc")}) =>
            \A accepted \in BOOLEAN :
                LET again == onSortOrderClick(State', localStorage', EnvOf(dom'), accepted)
                IN  /\ again.S.sortOrder = State.sortOrder
                    /\ again.S.sortOrder # State'.sortOrder
                    /\ deriveVisibleCoins(again.S) = deriveVisibleCoins(State) ]_vars

\* the ids favorites holds, as a set
IdSet(favorites) == Range(favorites.a)

\* C14: a click on the favorite button of coin x completes, puts x into
\* favorites if it was absent and takes it out if it was present, leaves the
\* other ids alone, and a second toggleFavorite(x) at once after it leaves
\* favorites, as a set, what it was before the first.
C14_ToggleFavoriteIsSelfInverse ==
    [][ IsCommand("favorite-btn") =>
            LET x == Str(last'.coinId)
            IN  /\ ~last'.threw
                /\ State.favorites.t = "array" /\ State'.favorites.t = "array"
                /\ (x \in IdSet(State'.favorites)) = (x \notin IdSet(State.favorites))
                /\ IdSet(State'.favorites) \ {x} = IdSet(State.favorites) \ {x}
                /\ \A accepted \in BOOLEAN :
                      LET again == toggleFavorite(State', localStorage', EnvOf(dom'),
                                                  last'.coinId, accepted)
                      IN  /\ ~again.threw
                          /\ IdSet(again.S.favorites) = IdSet(State.favorites) ]_vars

\* the same, from the states whose favorites is an array
C14_ToggleFavoriteOnArray ==
    [][ (IsCommand("favorite-btn") /\ State.favorites.t = "array") =>
            LET x == Str(last'.coinId)
            IN  /\ ~last'.threw
                /\ State'.favorites.t = "array"
                /\ (x \in IdSet(State'.favorites)) = (x \notin IdSet(State.favorites))
                /\ IdSet(State'.favorites) \ {x} = IdSet(State.favorites) \ {x}
                /\ \A accepted \in BOOLEAN :
                      LET again == toggleFavorite(State', localStorage', EnvOf(dom'),
                                                  last'.coinId, accepted)
                      IN  /\ ~again.threw
                          /\ IdSet(again.S.favorites) = IdSet(State.favorites) ]_vars

\* favorites is an array without elements
NoFavorites(S) == S.favorites.t = "array" /\ S.favorites.a = <<>>

\* the page d shows the empty-watchlist message and no card
ShowsWatchlistEmpty(d) ==
    /\ d.coinGrid = EmptyGrid
    /\ ~d.emptyStateHidden
    /\ d.emptyMsg = "watchlist-empty"

\* C15: a click on the watchlist toggle flips watchlistOnly; when that turns
\* it on and favorites is empty, showWatchlistEmpty is called and neither
\* deriveVisibleCoins nor renderCoins; in every other case the handler
\* completes with the list deriveVisibleCoins returns rendered.
C15_WatchlistToggleShortCircuits ==
    [][ IsCommand("watchlistToggle") =>
            /\ State'.watchlistOnly = ~State.watchlistOnly
            /\ IF State'.watchlistOnly /\ NoFavorites(State')
               THEN /\ "showWatchlistEmpty" \in Range(last'.calls)
                    /\ "deriveVisibleCoins" \notin Range(last'.calls)
                    /\ "renderCoins" \notin Range(last'.calls)
                    /\ ShowsWatchlistEmpty(dom')
               ELSE /\ ~last'.threw
                    /\ "deriveVisibleCoins" \in Range(last'.calls)
                    /\ "renderCoins" \in Range(last'.calls)
                    /\ Shows(dom', deriveVisibleCoins(State').value) ]_vars

\* the same, from the states whose favorites is an array
C15_WatchlistToggleOnArray ==
    [][ (IsCommand("watchlistToggle") /\ State.favorites.t = "array") =>
            /\ State'.watchlistOnly = ~State.watchlistOnly
            /\ IF State'.watchlistOnly /\ NoFavorites(State')
               THEN /\ "showWatchlistEmpty" \in Range(last'.calls)
                    /\ "deriveVisibleCoins" \notin Range(last'.calls)
                    /\ "renderCoins" \notin Range(last'.calls)
                    /\ ShowsWatchlistEmpty(dom')
               ELSE /\ ~last'.threw
                    /\ "deriveVisibleCoins" \in Range(last'.calls)
                    /\ "renderCoins" \in Range(last'.calls)
                    /\ Shows(dom', deriveVisibleCoins(State').value) ]_vars

\* the handlers that refresh the view
ViewCommands ==
    {"watchlistToggle", "favorite-btn", "searchInput", "clearSearch", "sortSelect",
     "sortOrderBtn"}

\* the step is a run of a handler that refreshes the view, or a loadData
\* resumed from a fulfilled fetchCoins()
RefreshesView ==
    \/ events' = events + 1 /\ last'.cmd \in ViewCommands
    \/ IsSettlement("fetchCoins:fulfilled")

\* C16: every command that refreshes the view and ends with watchlistOnly on
\* and favorites empty calls showWatchlistEmpty and does not call
\* deriveVisibleCoins.
C16_WatchlistEmptyTakesPrecedence ==
    [][ (RefreshesView /\ State'.watchlistOnly /\ NoFavorites(State')) =>
            /\ "showWatchlistEmpty" \in Range(last'.calls)
            /\ "deriveVisibleCoins" \notin Range(last'.calls) ]_vars

\* what the code does instead: only the watchlist toggle and toggleFavorite
\* leave the empty-watchlist message; the other commands run renderView and
\* leave the no-match message of renderCoins
C16_OnlyTheTogglesShowWatchlistEmpty ==
    [][ (RefreshesView /\ State'.watchlistOnly /\ NoFavorites(State')) =>
            IF last'.cmd \in {"watchlistToggle", "favorite-btn"}
            THEN ShowsWatchlistEmpty(dom')
            ELSE /\ "deriveVisibleCoins" \in Range(last'.calls)
                 /\ "showWatchlistEmpty" \notin Range(last'.calls)
                 /\ dom'.emptyMsg = "no-match" ]_vars

\* C17: when a click on a favorite button takes the last id out of favorites
\* while watchlistOnly is on, the page the handler leaves shows the
\* empty-watchlist message and no card, not the no-match message.
C17_LastFavoriteRemovedShowsWatchlistEmpty ==
    [][ (/\ IsCommand("favorite-btn")
         /\ State.watchlistOnly
         /\ length(State.favorites) > 0
         /\ NoFavorites(State')) =>
            /\ ~last'.threw
            /\ "showWatchlistEmpty" \in Range(last'.calls)
            /\ ShowsWatchlistEmpty(dom')
            /\ dom'.errorBannerHidden ]_vars

C17_WatchlistEmptiedByClick ==
    /\ last.cmd = "favorite-btn"
    /\ last.toast.kind = "removed"
    /\ State.watchlistOnly
    /\ State.favorites = Arr(<<>>)
    /\ State.allCoins # <<>>
    /\ ShowsWatchlistEmpty(dom)

\* the localStorage key and the State field each persisting handler writes
Persisted(cmd) ==
    CASE cmd = "sortSelect" -> [key |-> STORAGE_KEYS.SORT_BY, field |-> "sortBy"]
      [] cmd = "sortOrderBtn" -> [key |-> STORAGE_KEYS.SORT_ORDER, field |-> "sortOrder"]
      [] cmd = "themeToggle" -> [key |-> STORAGE_KEYS.THEME, field |-> "theme"]
      [] cmd = "favorite-btn" -> [key |-> STORAGE_KEYS.FAVORITES, field |-> "favorites"]

PersistingCommands == {"sortSelect", "sortOrderBtn", "themeToggle", "favorite-btn"}

\* C18: when localStorage accepts the write, after the sort select, sort
\* order, theme or favorite handler the entry of the field the handler
\* changed parses to the value State holds for it, and the other three
\* entries are what they were.
C18_WriteThrough ==
    [][ (/\ events' = events + 1
         /\ last'.cmd \in PersistingCommands
         /\ ~last'.refused) =>
            LET p == Persisted(last'.cmd)
            IN  /\ localStorage'[p.key].present
                /\ JSONparse(localStorage'[p.key].raw) =
                        [ok |-> TRUE, val |-> State'[p.field]]
                /\ \A k \in Keys \ {p.key} : localStorage'[k] = localStorage[k] ]_vars

C18_SortFieldWritten ==
    /\ last.cmd = "sortSelect"
    /\ ~last.refused
    /\ State.sortBy = Str("name")
    /\ localStorage[STORAGE_KEYS.SORT_BY] = Entry(<<Quote, "name", Quote>>)
    /\ ~localStorage[STORAGE_KEYS.SORT_ORDER].present

\* the step is a restart of the application
IsRestart == pc = "running" /\ pc' = "constructed"

\* C19: when no localStorage write has been refused, the State a restart
\* creates has the favorites, theme, sortBy and sortOrder the previous
\* session ended with, the default for each of them whose entry is missing,
\* and allCoins empty, searchQuery empty, watchlistOnly and isLoading false.
C19_SessionRoundTrip ==
    [][ (IsRestart /\ rejectedWrites = 0) =>
            /\ State'.favorites = State.favorites
            /\ State'.theme = State.theme
            /\ State'.sortBy = State.sortBy
            /\ State'.sortOrder = State.sortOrder
            /\ ~localStorage[STORAGE_KEYS.FAVORITES].present
                    => State'.favorites = Arr(<<>>)
            /\ ~localStorage[STORAGE_KEYS.THEME].present => State'.theme = Str("dark")
            /\ ~localStorage[STORAGE_KEYS.SORT_BY].present
                    => State'.sortBy = Str("market_cap")
            /\ ~localStorage[STORAGE_KEYS.SORT_ORDER].present
                    => State'.sortOrder = Str("desc")
            /\ State'.allCoins = <<>>
            /\ State'.searchQuery = <<>>
            /\ ~State'.watchlistOnly
            /\ ~State'.isLoading ]_vars

C19_RestartedWithSavedFavorite ==
    /\ pc = "constructed"
    /\ events = 2
    /\ rejectedWrites = 0
    /\ State.favorites = StrArr(<<"a">>)
    /\ State.theme = Str("dark")
    /\ ~localStorage[STORAGE_KEYS.THEME].present
    /\ State.allCoins = <<>>

\* the handlers of search, sort, sort order, watchlist and favorites
InteractiveCommands ==
    {"searchInput", "clearSearch", "sortSelect", "sortOrderBtn", "watchlistToggle",
     "favorite-btn"}

\* C20: a search, sort, sort-order, watchlist or favorite command that runs
\* right after a failed loadData, or whose localStorage write is refused,
\* completes, leaves allCoins what it was, and leaves on the page the list
\* deriveVisibleCoins returns for it.
C20_InteractiveAfterFailure ==
    [][ (/\ events' = events + 1
         /\ last'.cmd \in InteractiveCommands
         /\ last.cmd = "fetchCoins:rejected" \/ last'.refused) =>
            /\ ~last'.threw
            /\ State'.allCoins = State.allCoins
            /\ ~deriveVisibleCoins(State').threw
            /\ Shows(dom', deriveVisibleCoins(State').value) ]_vars

\* the same, from the states whose favorites is an array, and for every run
\* of these commands, however long after the failure
C20_InteractiveOnArray ==
    [][ (/\ events' = events + 1
         /\ last'.cmd \in InteractiveCommands
         /\ State.favorites.t = "array") =>
            /\ ~last'.threw
            /\ State'.allCoins = State.allCoins
            /\ ~deriveVisibleCoins(State').threw
            /\ Shows(dom', deriveVisibleCoins(State').value) ]_vars

\* every handler that is not a loadData trigger
OtherCommands == InteractiveCommands \cup {"themeToggle"}

\* the State field each of these handlers is there to change
OwnField(cmd) ==
    CASE cmd \in {"searchInput", "clearSearch"} -> "searchQuery"
      [] cmd = "sortSelect" -> "sortBy"
      [] cmd = "sortOrderBtn" -> "sortOrder"
      [] cmd = "watchlistToggle" -> "watchlistOnly"
      [] cmd = "favorite-btn" -> "favorites"
      [] cmd = "themeToggle" -> "theme"

\* the fields of State no loadData ever assigns
Settings == {"searchQuery", "sortBy", "sortOrder", "watchlistOnly", "favorites", "theme"}

\* the step made the change the handler cmd is there to make
Applied(cmd) ==
    CASE cmd = "searchInput" -> State'.searchQuery \in Queries
      [] cmd = "clearSearch" -> State'.searchQuery = <<>>
      [] cmd = "sortSelect" -> State'.sortBy \in {Str(f) : f \in SortOptions}
      [] cmd = "sortOrderBtn" -> State'.sortOrder # State.sortOrder
      [] cmd = "watchlistToggle" -> State'.watchlistOnly = ~State.watchlistOnly
      [] cmd = "favorite-btn" ->
            /\ State'.favorites.t = "array"
            /\ (Str(last'.coinId) \in Range(State'.favorites.a))
                    # favoritesIncludes(State.favorites, last'.coinId)
      [] cmd = "themeToggle" -> State'.theme # State.theme

\* C21: a search, sort, sort-order, watchlist, favorite or theme command
\* leaves allCoins and isLoading unchanged and makes its change to its own
\* field at once, also while a fetch is pending; the settlement of the fetch
\* leaves searchQuery, sortBy, sortOrder, watchlistOnly, favorites and theme
\* what the commands made them, and on fulfilment the page shows the list
\* deriveVisibleCoins returns for them.
C21_CommandsInterleaveWithFetch ==
    [][ /\ (events' = events + 1 /\ last'.cmd \in OtherCommands) =>
                /\ State'.allCoins = State.allCoins
                /\ State'.isLoading = State.isLoading
                /\ \A f \in Settings \ {OwnField(last'.cmd)} : State'[f] = State[f]
                /\ Applied(last'.cmd)
        /\ FetchSettles => \A f \in Settings : State'[f] = State[f]
        /\ IsSettlement("fetchCoins:fulfilled") =>
                /\ ~deriveVisibleCoins(State').threw
                /\ Shows(dom', deriveVisibleCoins(State').value) ]_vars

\* the same, from the states whose favorites is an array
C21_CommandsInterleaveOnArray ==
    [][ State.favorites.t = "array" =>
        /\ (events' = events + 1 /\ last'.cmd \in OtherCommands) =>
                /\ State'.allCoins = State.allCoins
                /\ State'.isLoading = State.isLoading
                /\ \A f \in Settings \ {OwnField(last'.cmd)} : State'[f] = State[f]
                /\ Applied(last'.cmd)
        /\ FetchSettles => \A f \in Settings : State'[f] = State[f]
        /\ IsSettlement("fetchCoins:fulfilled") =>
                /\ ~deriveVisibleCoins(State').threw
                /\ Shows(dom', deriveVisibleCoins(State').value) ]_vars

\* the frame alone, in every state: no handler but loadData assigns allCoins
\* or isLoading, and no loadData assigns any other field
C21_FrameInEveryState ==
    [][ /\ (events' = events + 1 /\ last'.cmd \in OtherCommands) =>
                /\ State'.allCoins = State.allCoins
                /\ State'.isLoading = State.isLoading
                /\ \A f \in Settings \ {OwnField(last'.cmd)} : State'[f] = State[f]
        /\ FetchSettles => \A f \in Settings : State'[f] = State[f] ]_vars

\* a sort order click made while the first fetch was pending, on the page
\* the fulfilment left: the coins in ascending order of market cap
C21_OrderChangedDuringFetch ==
    /\ last.cmd = "fetchCoins:fulfilled"
    /\ events = 1
    /\ State.sortOrder = Str("asc")
    /\ State.sortBy = Str("market_cap")
    /\ ~localStorage[STORAGE_KEYS.SORT_BY].present
    /\ Shows(dom, <<Beta, Alfa>>)

\* the step is a run of loadData: the entry point, one of its triggers, or
\* its resumption from a settled fetchCoins()
IsLoadDataStep ==
    \/ pc = "constructed" /\ pc' = "running"
    \/ IsLoadTrigger
    \/ FetchSettles

\* C22: the search input and clear handlers change no field of State but
\* searchQuery, the watchlist toggle changes none but watchlistOnly, which it
\* negates, and neither they nor loadData change any of the four localStorage
\* entries.
C22_SearchAndWatchlistNotPersisted ==
    [][ /\ (events' = events + 1 /\ last'.cmd \in {"searchInput", "clearSearch"}) =>
                /\ State' = [State EXCEPT !.searchQuery = State'.searchQuery]
                /\ \A k \in Keys : localStorage'[k] = localStorage[k]
        /\ IsCommand("watchlistToggle") =>
                /\ State' = [State EXCEPT !.watchlistOnly = ~State.watchlistOnly]
                /\ \A k \in Keys : localStorage'[k] = localStorage[k]
        /\ IsLoadDataStep => \A k \in Keys : localStorage'[k] = localStorage[k] ]_vars

\* a query typed and the watchlist switched on, in a session opened on
\* saved preferences: the entries are the saved ones
C22_SearchedThenWatchlisted ==
    /\ last.cmd = "watchlistToggle"
    /\ events = 2
    /\ State.watchlistOnly
    /\ State.searchQuery = <<"z", "z">>
    /\ localStorage = SavedStore
    /\ State.favorites = StrArr(<<"b">>)

\* C23: when sortBy is none of the five sort fields (and favorites is an
\* array), deriveVisibleCoins does not throw, and what it returns is ordered
\* by market cap times the direction of sortOrder, records of equal market
\* cap in the order they have among the filtered records of allCoins.
C23_UnknownFieldSortsByMarketCap ==
    (/\ probe.fn = "deriveVisibleCoins"
     /\ probe.S.sortBy \notin {Str(f) : f \in SortFields}
     /\ probe.S.favorites.t = "array") =>
        LET v == probe.visible.value
            direction == IF probe.S.sortOrder = Str("asc") THEN 1 ELSE -1
            cmp(a, b) == direction * SortKeyCompare("market_cap", a, b)
        IN  /\ ~probe.visible.threw
            /\ Len(v) = Len(Filtered(probe.S))
            /\ \A i, j \in 1..Len(v) : i < j => cmp(v[i], v[j]) <= 0
            /\ \A c \in Range(v) :
                  LET tie(x) == cmp(x, c) = 0
                  IN  SelectSeq(v, tie) = SelectSeq(Filtered(probe.S), tie)

\* what the code does: the market cap comparator stands in only for a
\* sortBy that names no property of the comparators object, inherited ones
\* included; under an inherited name the records stay in the order of
\* allCoins, or the sort throws
C23_FallbackForAbsentPropertiesOnly ==
    (/\ probe.fn = "deriveVisibleCoins"
     /\ probe.S.sortBy \notin {Str(f) : f \in SortFields}
     /\ probe.S.favorites.t = "array") =>
        LET v == probe.visible.value
            key == probe.S.sortBy.s
            direction == IF probe.S.sortOrder = Str("asc") THEN 1 ELSE -1
            cmp(a, b) == direction * SortKeyCompare("market_cap", a, b)
        IN  CASE key \in {"toString", "constructor"} ->
                    ~probe.visible.threw /\ v = Filtered(probe.S)
              [] key = "__proto__" -> probe.visible.threw
              [] key = "valueOf" ->
                    IF Len(Filtered(probe.S)) >= 2 THEN probe.visible.threw
                    ELSE ~probe.visible.threw /\ v = Filtered(probe.S)
              [] OTHER ->
                    /\ ~probe.visible.threw
                    /\ Len(v) = Len(Filtered(probe.S))
                    /\ \A i, j \in 1..Len(v) : i < j => cmp(v[i], v[j]) <= 0
                    /\ \A c \in Range(v) :
                          LET tie(x) == cmp(x, c) = 0
                          IN  SelectSeq(v, tie) = SelectSeq(Filtered(probe.S), tie)

\* an unknown name that is no property at all: the fallback is taken
C23_BananaSortedByMarketCap ==
    /\ probe.fn = "deriveVisibleCoins"
    /\ probe.S.sortBy = Str("banana")
    /\ probe.S.sortOrder = Str("asc")
    /\ probe.S.allCoins = <<Alfa, Beta>>
    /\ probe.S.searchQuery = <<>>
    /\ ~probe.S.watchlistOnly
    /\ probe.visible = [threw |-> FALSE, value |-> <<Beta, Alfa>>]

\* how many of the error banner, the empty-state panel and a non-empty grid
\* (cards or skeletons) the page d displays
Displayed(d) ==
    (IF d.errorBannerHidden THEN 0 ELSE 1)
        + (IF d.emptyStateHidden THEN 0 ELSE 1)
        + (IF d.coinGrid.kind = "empty" THEN 0 ELSE 1)

\* C24: in every reachable state the page displays at most one of the error
\* banner, the empty-state panel and a non-empty grid of cards or skeletons.
C24_AtMostOneDisplayed == Displayed(dom) <= 1

\* what the code keeps: a non-empty grid is never displayed with the banner
\* or the panel, and the banner and the panel are displayed together only
\* when the watchlist toggle found no favorites while the banner was up
C24_OnlyWatchlistEmptyJoinsTheBanner ==
    \/ Displayed(dom) <= 1
    \/ /\ dom.coinGrid.kind = "empty"
       /\ dom.emptyMsg = "watchlist-empty"
       /\ last.cmd \in {"watchlistToggle", "themeToggle"}
       /\ State.watchlistOnly
       /\ NoFavorites(State)

\* the watchlist switched on with no favorites after a failed load: the
\* banner and the panel are both displayed
C24_BannerAndPanelTogether ==
    /\ last.cmd = "watchlistToggle"
    /\ ~dom.errorBannerHidden
    /\ ~dom.emptyStateHidden
    /\ dom.emptyMsg = "watchlist-empty"
    /\ State.allCoins = <<>>


====
